---- MODULE Spec2Model ----
(***************************************************************************)
(* A model of the BitTorrent downloader: the parallel download coordinator *)
(* (file_download.rs), the peer-wire framing and bitfield (peer.rs) and    *)
(* the typed info dictionary (torrent_file.rs).                            *)
(*                                                                         *)
(* Byte strings that are too long to enumerate (piece data, the output     *)
(* buffer) are kept run-length encoded: a sequence of runs                 *)
(* [len |-> n, kind |-> k, src |-> s], n bytes that are                    *)
(*   k = "ref"   the bytes of the reference file at offsets s .. s+n-1,    *)
(*   k = "zero"  the byte 0 repeated (vec![0; n]),                         *)
(*   k = "junk"  bytes that are neither.                                   *)
(* The reference file is taken to be generic: its bytes are not zero and   *)
(* no two ranges of it hold the same bytes.  SHA-1 is taken to be free of  *)
(* collisions.                                                             *)
(***************************************************************************)
EXTENDS Integers, Sequences, FiniteSets, Bags, TLC

\* ------------------------------------------------------------------ bounds
NumPeers == 2
NumPieces == 2
piece_length == 20000
LastPieceLen == 10000

\* ------------------------------------------------------- program constants
NumWorkers == 5
CHUNK_SIZE == 16384
PSTRLEN == 19

Peers == 1 .. NumPeers
file_length == (NumPieces - 1) * piece_length + LastPieceLen

Min(a, b) == IF a < b THEN a ELSE b

\* ------------------------------------------------------ run-length bytes
Run(n, k, s) == [len |-> n, kind |-> k, src |-> s]
RefRun(n, s) == Run(n, "ref", s)
ZeroRun(n) == Run(n, "zero", 0)
JunkRun(n) == Run(n, "junk", 0)

RECURSIVE ByteLen(_)
ByteLen(runs) ==
  IF runs = <<>> THEN 0 ELSE Head(runs).len + ByteLen(Tail(runs))

\* Two adjacent runs are one run when the second continues the first.
Joins(a, b) ==
  \/ a.kind = "zero" /\ b.kind = "zero"
  \/ a.kind = "junk" /\ b.kind = "junk"
  \/ a.kind = "ref" /\ b.kind = "ref" /\ b.src = a.src + a.len

RECURSIVE Normalize(_)
Normalize(runs) ==
  IF runs = <<>> THEN <<>>
  ELSE IF Head(runs).len = 0 THEN Normalize(Tail(runs))
  ELSE LET rest == Normalize(Tail(runs)) IN
       IF rest # <<>> /\ Joins(Head(runs), Head(rest))
       THEN <<Run(Head(runs).len + Head(rest).len, Head(runs).kind, Head(runs).src)>>
            \o Tail(rest)
       ELSE <<Head(runs)>> \o rest

\* The first n bytes (runs[..n]).
RECURSIVE Take(_, _)
Take(runs, n) ==
  IF n <= 0 \/ runs = <<>> THEN <<>>
  ELSE IF Head(runs).len <= n
       THEN <<Head(runs)>> \o Take(Tail(runs), n - Head(runs).len)
       ELSE <<Run(n, Head(runs).kind, Head(runs).src)>>

\* All but the first n bytes (runs[n..]).
RECURSIVE Drop(_, _)
Drop(runs, n) ==
  IF n <= 0 \/ runs = <<>> THEN runs
  ELSE IF Head(runs).len <= n
       THEN Drop(Tail(runs), n - Head(runs).len)
       ELSE <<Run(Head(runs).len - n, Head(runs).kind,
                  IF Head(runs).kind = "ref" THEN Head(runs).src + n ELSE 0)>>
            \o Tail(runs)

\* runs[a..b]
Slice(runs, a, b) == Normalize(Take(Drop(runs, a), b - a))

\* The bytes a .. b-1 of the reference file.
RefBytes(a, b) == Normalize(<<RefRun(b - a, a)>>)

\* PieceHash::from(&[u8]) and Sha1: a digest that tells any two byte
\* strings apart.
Digest(bytes) == [sha1 |-> bytes]
Sha1(runs) == Digest(Normalize(runs))

\* ------------------------------------------------------- big-endian u32
\* (n as i32).to_be_bytes() for 0 <= n < 2^31, the integers TLC has.
Be32(n) ==
  <<(n \div 16777216) % 256, (n \div 65536) % 256, (n \div 256) % 256, n % 256>>

FromBe32(b) == b[1] * 16777216 + b[2] * 65536 + b[3] * 256 + b[4]

\* ------------------------------------------------------------- peer.rs
\* MessageType as u8 (Into<u8>) and back (From<u8>, which panics past 8).
MessageNames ==
  <<"Choke", "Unchoke", "Interested", "NotInterested", "Have", "Bitfield",
    "Request", "Piece", "Cancel">>

MessageTypeKnown(value) == value \in 0 .. 8
MessageTypeFrom(value) == MessageNames[value + 1]
MessageTypeInto(name) == CHOOSE v \in 0 .. 8 : MessageNames[v + 1] = name

\* Bitfield::has_piece: the assertion, then the value it returns.
has_piece_asserts(bits, piece_index) == (piece_index \div 8) < Len(bits)

\* A has_piece that counts the bits of a byte from the least significant one.
has_piece_lsb(bits, piece_index) ==
  LET byte_index == piece_index \div 8
      bit_index == piece_index % 8
      byte == bits[byte_index + 1]
  IN  (byte \div (2 ^ bit_index)) % 2 = 1

\* The value has_piece returns: bit bit_index of the byte, MSB first.
has_piece(bits, piece_index) ==
  LET byte_index == piece_index \div 8
      bit_index == piece_index % 8
      byte == bits[byte_index + 1]
      shifted == (byte * (2 ^ bit_index)) % 256
  IN  (shifted \div 128) % 2 = 1

\* RequestPayload::new and as_bytes: three big-endian 32-bit fields.
RequestPayload(index, begin, length) == Be32(index) \o Be32(begin) \o Be32(length)

\* A frame on the wire: length:u32-be, id:u8, then the payload, kept as
\* explicit leading bytes followed by run-length encoded bulk bytes.  trunc
\* marks a stream that ends or errors before the frame is complete.
Frame(length, id, bytes, block, trunc) ==
  [length |-> length, id |-> id, bytes |-> bytes, block |-> block, trunc |-> trunc]

NoFrame == Frame(0, 0, <<>>, <<>>, FALSE)
PayloadLen(f) == Len(f.bytes) + ByteLen(f.block)

\* send_message: the buffer written for Message{message_type, payload}.
send_message(name, payload) ==
  Frame(Len(payload) + 1, MessageTypeInto(name), payload, <<>>, FALSE)

\* A conversion that takes any payload.
try_from_any_bytes(P, f) == "ok"

\* <P as TryFromBytes>::try_from_bytes on the payload of frame f.
try_from_bytes(P, f) ==
  CASE P = "Bitfield" -> "ok"
    [] P = "EmptyPayload" -> IF PayloadLen(f) = 0 THEN "ok" ELSE "panic"
    [] P = "Piece" -> IF PayloadLen(f) < 8 THEN "err" ELSE "ok"

\* read_message::<P>: "err" is Err(..) returned with ?, "panic" an abort of
\* the thread, "ok" a Message.  A length of 0 reads the next byte as the id
\* and then asks for a payload of length - 1 bytes: the subtraction
\* overflows (a panic in a debug build, and in a release build a request
\* for usize::MAX bytes, which panics with capacity overflow).
read_message(P, f) ==
  IF f.trunc THEN "err"
  ELSE IF ~MessageTypeKnown(f.id) THEN "panic"
  ELSE IF f.length = 0 THEN "panic"
  ELSE try_from_bytes(P, f)

\* The fields of a Piece payload.
PieceIndex(f) == FromBe32(SubSeq(f.bytes, 1, 4))
PieceBegin(f) == FromBe32(SubSeq(f.bytes, 5, 8))

\* Handshake::new: the 68-byte frame.
Handshake(info_hash, peer_id) ==
  [protocol_len |-> PSTRLEN, protocol |-> "BitTorrent protocol",
   info_hash |-> info_hash, peer_id |-> peer_id]

\* ---------------------------------------------------- request_peice sizes
PieceSize(piece_index, size, length) == Min(size, length - piece_index * size)

\* A block size that is never cut to what is left of the piece.
BlockSizeUncut(piece_size, offset) == CHUNK_SIZE
BlockSize(piece_size, offset) == Min(piece_size - offset, CHUNK_SIZE)

\* ============================================================ the download
(***************************************************************************)
(* download_file spawns NumWorkers threads that run the same closure over  *)
(* the same three Arc<Mutex<..>>.  Nothing in run tells one thread from    *)
(* another, and download_file joins whichever handle comes next, so the    *)
(* threads are kept as a bag of thread states: `threads` holds, for each   *)
(* state a thread can be in, how many threads are in it.                   *)
(***************************************************************************)
VARIABLES
  swarm,        \* the bitfield bytes each remote peer answers with
  peers,        \* peers: Arc<Mutex<Vec<Peer>>>, the pool (a stack)
  pieces,       \* pieces: Arc<Mutex<Vec<(usize, PieceHash)>>>, the work queue
  pieces_lock,  \* the mutex of pieces: locked, poisoned
  file_buffer,  \* file_buffer: Arc<Mutex<Vec<u8>>>
  buffer_lock,  \* the mutex of file_buffer: locked, poisoned
  threads,      \* the bag of the workers' states (pc and locals)
  joined,       \* how many handles download_file has joined
  main_pc,      \* download_file: "join", "written" or "aborted"
  output_file,  \* what std::fs::write wrote
  rx,           \* the frame the step just taken read from a socket, if any
  rq,           \* request_peice run alone on one (piece_index, size, file_length)
  bf,           \* Bitfield::has_piece run alone on one (bytes, piece_index)
  tf,           \* Info parsed from one info dictionary and encoded again
  tr,           \* deserialize_peers run alone on one peers byte string
  bn            \* decode_bencoded_value run alone on one bencoded integer

dl_vars ==
  <<swarm, peers, pieces, pieces_lock, file_buffer, buffer_lock, threads, joined,
    main_pc, output_file, rx>>
probes == <<rq, bf, tf, tr, bn>>
vars == <<dl_vars, probes>>

\* What a step of a worker on its own socket leaves alone.
io_frame ==
  <<swarm, pieces, pieces_lock, file_buffer, buffer_lock, joined, main_pc,
    output_file, probes>>

\* The torrent: piece i of the reference file and Info.pieces.
PieceCount == NumPieces
PieceStart(i) == i * piece_length
PieceBytes(i) ==
  RefBytes(PieceStart(i), PieceStart(i) + PieceSize(i, piece_length, file_length))
InfoPieces == [i \in 1 .. PieceCount |-> Sha1(PieceBytes(i - 1))]
TorrentInfoHash == "info-hash"

Piece(index, hash) == [index |-> index, hash |-> hash]
NoPiece == Piece(0 - 1, Sha1(<<>>))
Mutex(locked, poisoned) == [locked |-> locked, poisoned |-> poisoned]

NoHandshake == Handshake("", "")

\* A worker: where it is (pc), the peer it popped, the MutexGuard it holds
\* ("none", "pieces" or "file_buffer"), the locals of download_from_peer and
\* request_peice, and hs, the 68 bytes the peer answered the handshake with,
\* kept until the next read from the stream.
Thread(pc, peer, guard, hs, bitfield, piece, offset, buffer) ==
  [pc |-> pc, peer |-> peer, guard |-> guard, hs |-> hs, bitfield |-> bitfield,
   piece |-> piece, offset |-> offset, buffer |-> buffer]

\* A worker outside a session.
Idle(at) == Thread(at, 0, "none", NoHandshake, <<>>, NoPiece, 0, <<>>)

\* The frame a step read with read_message and where the reader was (its
\* pc); NoRx after a step that read none.
Rx(t, f) == [read |-> TRUE, at |-> t.pc, frame |-> f]
NoRx == [read |-> FALSE, at |-> "", frame |-> NoFrame]

\* ------------------------------------------------ what a remote peer sends
IoError == Frame(0, 0, <<>>, <<>>, TRUE)
KeepAlive == Frame(0, 0, <<>>, <<>>, FALSE)
UnknownId == Frame(1, 9, <<>>, <<>>, FALSE)
Empty(name) == Frame(1, MessageTypeInto(name), <<>>, <<>>, FALSE)
HaveFrame == Frame(5, MessageTypeInto("Have"), Be32(0), <<>>, FALSE)
BitfieldFrame(bits) == Frame(Len(bits) + 1, MessageTypeInto("Bitfield"), bits, <<>>, FALSE)
PieceFrame(index, begin, block) ==
  Frame(9 + ByteLen(block), MessageTypeInto("Piece"), Be32(index) \o Be32(begin),
        block, FALSE)

\* One byte of bitfield with any of the first PieceCount bits set, or none.
BitfieldChoices ==
  {<<b>> : b \in {x \in 0 .. 255 : x % (2 ^ (8 - PieceCount)) = 0}} \cup {<<>>}

HandshakeReplies ==
  {Handshake(TorrentInfoHash, "peer"),
   [Handshake(TorrentInfoHash, "peer") EXCEPT !.protocol_len = 18],
   [Handshake(TorrentInfoHash, "peer") EXCEPT !.protocol = "BitTorrent protocoX"],
   Handshake("other-hash", "peer")}

BitfieldOffers(p) ==
  {BitfieldFrame(swarm[p]), KeepAlive, UnknownId, Empty("Unchoke"), IoError}

UnchokeOffers ==
  {Empty("Unchoke"), Empty("Choke"), HaveFrame, KeepAlive, UnknownId, IoError}

\* The answers to Request(index, begin, length).
PieceOffers(index, begin, length) ==
  LET start == PieceStart(index) + begin IN
  {PieceFrame(index, begin, <<RefRun(length, start)>>),
   PieceFrame(index, begin, <<JunkRun(length)>>),
   PieceFrame(index, begin, <<RefRun(length - 1, start)>>),
   PieceFrame(index + 1, begin, <<RefRun(length, start)>>),
   PieceFrame(index, begin + 1, <<RefRun(length, start)>>),
   Frame(5, MessageTypeInto("Piece"), Be32(index), <<>>, FALSE),
   Empty("Choke"), KeepAlive, UnknownId, IoError}

\* ------------------------------------------------------------ the workers
Running == BagToSet(threads)
Alive == main_pc = "join"

\* One thread goes from state t to state t2.
Step(t, t2) == threads' = (threads (-) SetToBag({t})) (+) SetToBag({t2})
Goto(t, at) == Step(t, [t EXCEPT !.pc = at])

\* run, the Err arm: the peer goes back to the pool and the loop goes on.
\* The locals of download_from_peer, a claimed piece among them, are dropped.
ReturnErr(t) ==
  /\ peers' = Append(peers, t.peer)
  /\ Step(t, Idle("run"))

\* A failed assertion or unwrap: the thread unwinds, its locals are dropped.
Panic(t) ==
  /\ Step(t, Idle("panicked"))
  /\ UNCHANGED peers

\* run: peers.lock().unwrap().pop(), or return when the pool is empty.
RunPop(t) ==
  /\ Alive /\ t.pc = "run"
  /\ IF peers = <<>>
     THEN Goto(t, "done") /\ UNCHANGED peers
     ELSE /\ peers' = SubSeq(peers, 1, Len(peers) - 1)
          /\ Step(t, [t EXCEPT !.pc = "connect", !.peer = peers[Len(peers)]])
  /\ rx' = NoRx
  /\ UNCHANGED io_frame

\* download_from_peer: TcpStream::connect(peer.0)?
Connect(t) ==
  /\ Alive /\ t.pc = "connect"
  /\ \/ Goto(t, "handshake") /\ UNCHANGED peers
     \/ ReturnErr(t)
  /\ rx' = NoRx
  /\ UNCHANGED io_frame

\* handshake: what the function returns once the 68 bytes of the reply are
\* in its buffer; no field of the reply is looked at.
handshake(sent, reply) == "ok"

\* handshake(&info_hash, &mut stream)?: write 68 bytes, read 68 bytes.
DoHandshake(t) ==
  /\ Alive /\ t.pc = "handshake"
  /\ \/ ReturnErr(t)
     \/ \E reply \in HandshakeReplies :
          IF handshake(Handshake(TorrentInfoHash, "00112233445566778899"), reply) = "ok"
          THEN /\ Step(t, [t EXCEPT !.pc = "bitfield", !.hs = reply])
               /\ UNCHANGED peers
          ELSE ReturnErr(t)
  /\ rx' = NoRx
  /\ UNCHANGED io_frame

\* A read that takes the message whatever its type.
read_unasserted(P, expected, f) == read_message(P, f)

\* read_message::<P> followed by assert_eq!(message.message_type, expected).
read_expecting(P, expected, f) ==
  LET r == read_message(P, f) IN
  IF r = "ok" /\ MessageTypeFrom(f.id) # expected THEN "panic" ELSE r

\* read_message::<Bitfield> and the assertion on its type.
ReadBitfield(t) ==
  /\ Alive /\ t.pc = "bitfield"
  /\ \E f \in BitfieldOffers(t.peer) :
       /\ rx' = Rx(t, f)
       /\ LET r == read_expecting("Bitfield", "Bitfield", f) IN
          IF r = "err" THEN ReturnErr(t)
          ELSE IF r = "panic" THEN Panic(t)
          ELSE /\ Step(t, [t EXCEPT !.pc = "interested", !.hs = NoHandshake,
                                    !.bitfield = f.bytes])
               /\ UNCHANGED peers
  /\ UNCHANGED io_frame

\* send_message(Interested)?
SendInterested(t) ==
  /\ Alive /\ t.pc = "interested"
  /\ \/ Goto(t, "unchoke") /\ UNCHANGED peers
     \/ ReturnErr(t)
  /\ rx' = NoRx
  /\ UNCHANGED io_frame

\* read_message::<EmptyPayload> and the assertion on its type.
ReadUnchoke(t) ==
  /\ Alive /\ t.pc = "unchoke"
  /\ \E f \in UnchokeOffers :
       /\ rx' = Rx(t, f)
       /\ LET r == read_expecting("EmptyPayload", "Unchoke", f) IN
          IF r = "err" THEN ReturnErr(t)
          ELSE IF r = "panic" THEN Panic(t)
          ELSE Goto(t, "lock_pieces") /\ UNCHANGED peers
  /\ UNCHANGED io_frame

\* pieces.lock().unwrap(): blocks while another thread owns the mutex;
\* a poisoned mutex makes unwrap panic.
LockPieces(t) ==
  /\ Alive /\ t.pc = "lock_pieces"
  /\ ~pieces_lock.locked
  /\ IF pieces_lock.poisoned
     THEN Panic(t) /\ UNCHANGED pieces_lock
     ELSE /\ Step(t, [t EXCEPT !.pc = "claim", !.guard = "pieces"])
          /\ pieces_lock' = Mutex(TRUE, FALSE)
          /\ UNCHANGED peers
  /\ rx' = NoRx
  /\ UNCHANGED <<swarm, pieces, file_buffer, buffer_lock, joined, main_pc,
                 output_file, probes>>

\* pieces.iter().position(|(index, _)| bitfield.has_piece(*index)): the
\* 1-based place of the first entry the peer has, 0 for None.
position(bits, queue) ==
  LET hits == {k \in 1 .. Len(queue) :
                 has_piece_asserts(bits, queue[k].index)
                 /\ has_piece(bits, queue[k].index)}
  IN  IF hits = {} THEN 0 ELSE CHOOSE k \in hits : \A j \in hits : k <= j

\* Whether the scan calls has_piece on an index past the bitfield's bytes
\* before it finds an entry the peer has.
position_panics(bits, queue) ==
  \E j \in 1 .. Len(queue) :
    /\ ~has_piece_asserts(bits, queue[j].index)
    /\ position(bits, queue) \in {0} \cup (j + 1 .. Len(queue))

\* A removal that takes the entry at the front whatever k is.
RemoveFront(queue, k) == Tail(queue)

\* A claim that copies the entry at k and leaves it in the queue.
RemoveNothing(queue, k) == queue

\* Vec::remove(k), k counted from 1.
Remove(queue, k) == SubSeq(queue, 1, k - 1) \o SubSeq(queue, k + 1, Len(queue))

\* The head of the while loop of request_peice; past the loop come the
\* assertion on the hash and, back in download_from_peer, file_buffer.lock().
LoopHead(offset, piece_size) == IF offset < piece_size THEN "request" ELSE "verify"

\* A thread that goes on without dropping its guard.
keep_pieces(t) == t

\* drop(pieces): the thread gives up its guard of the work queue.
drop_pieces(t) == [t EXCEPT !.guard = "none"]

\* The scan under the lock, then pieces.remove(piece_index) and drop(pieces),
\* or return Ok(()) when the peer has nothing that is queued.
Claim(t) ==
  /\ Alive /\ t.pc = "claim"
  /\ LET k == position(t.bitfield, pieces) IN
     IF position_panics(t.bitfield, pieces)
     THEN /\ Panic(t)
          /\ pieces_lock' = Mutex(FALSE, TRUE)
          /\ UNCHANGED pieces
     ELSE IF k = 0
     THEN /\ Step(t, Idle("run"))
          /\ pieces_lock' = Mutex(FALSE, FALSE)
          /\ UNCHANGED <<peers, pieces>>
     ELSE /\ pieces' = Remove(pieces, k)
          /\ pieces_lock' = Mutex(FALSE, FALSE)
          /\ Step(t, [drop_pieces(t) EXCEPT
               !.piece = pieces[k], !.offset = 0, !.buffer = <<>>,
               !.pc = LoopHead(0, PieceSize(pieces[k].index, piece_length,
                                            file_length))])
          /\ UNCHANGED peers
  /\ rx' = NoRx
  /\ UNCHANGED <<swarm, file_buffer, buffer_lock, joined, main_pc, output_file,
                 probes>>

\* request_peice: the locals of the loop of thread t.
piece_size(t) == PieceSize(t.piece.index, piece_length, file_length)
block_size(t) == BlockSize(piece_size(t), t.offset)

\* request_peice: send_message(Request(piece_index, offset, block_size))?
SendRequest(t) ==
  /\ Alive /\ t.pc = "request"
  /\ \/ Goto(t, "piece") /\ UNCHANGED peers
     \/ ReturnErr(t)
  /\ rx' = NoRx
  /\ UNCHANGED io_frame

\* request_peice: read_message::<Piece> and the two assertions on the chunk.
read_chunk(t, f) ==
  LET r == read_expecting("Piece", "Piece", f) IN
  IF r = "ok" /\ ByteLen(f.block) # block_size(t) THEN "panic" ELSE r

\* request_peice: one chunk read, buffer.extend, offset += block_size.
RecvPiece(t) ==
  /\ Alive /\ t.pc = "piece"
  /\ \E f \in PieceOffers(t.piece.index, t.offset, block_size(t)) :
       /\ rx' = Rx(t, f)
       /\ LET r == read_chunk(t, f) IN
          IF r = "err" THEN ReturnErr(t)
          ELSE IF r = "panic" THEN Panic(t)
          ELSE /\ Step(t, [t EXCEPT
                    !.buffer = Normalize(t.buffer \o f.block),
                    !.offset = t.offset + block_size(t),
                    !.pc = LoopHead(t.offset + block_size(t), piece_size(t))])
               /\ UNCHANGED peers
  /\ UNCHANGED io_frame

\* A request_peice that returns its buffer without the assertion.
hash_unchecked(hash, buffer) == TRUE

\* request_peice: assert_eq!(hash, &PieceHash::from(buffer)).
hash_matches(hash, buffer) == hash = Sha1(buffer)

\* request_peice past its loop: the assertion, then Ok(buffer).
Verify(t) ==
  /\ Alive /\ t.pc = "verify"
  /\ IF hash_matches(t.piece.hash, t.buffer)
     THEN Goto(t, "lock_buffer") /\ UNCHANGED peers
     ELSE Panic(t)
  /\ rx' = NoRx
  /\ UNCHANGED io_frame

\* file_buffer.lock().unwrap()
LockBuffer(t) ==
  /\ Alive /\ t.pc = "lock_buffer"
  /\ ~buffer_lock.locked
  /\ IF buffer_lock.poisoned
     THEN Panic(t) /\ UNCHANGED buffer_lock
     ELSE /\ Step(t, [t EXCEPT !.pc = "install", !.guard = "file_buffer"])
          /\ buffer_lock' = Mutex(TRUE, FALSE)
          /\ UNCHANGED peers
  /\ rx' = NoRx
  /\ UNCHANGED <<swarm, pieces, pieces_lock, file_buffer, joined, main_pc,
                 output_file, probes>>

\* An offset counted in pieces of the size of the piece at hand.
InstallOffsetBySize(piece_index) ==
  piece_index * PieceSize(piece_index, piece_length, file_length)

\* Where download_from_peer copies a piece: piece_index * piece_length.
InstallOffset(piece_index) == piece_index * piece_length

\* buffer[offset .. offset + data.len()] = data
CopyToSlice(buf, offset, data) ==
  Normalize(Take(buf, offset) \o data \o Drop(buf, offset + ByteLen(data)))

\* The copy into file_buffer[offset .. offset + piece_buffer.len()] (a panic
\* when the range ends past the buffer), then the end of the loop body,
\* where the guard of file_buffer is dropped.
Install(t) ==
  /\ Alive /\ t.pc = "install"
  /\ LET off == InstallOffset(t.piece.index) IN
     IF off + ByteLen(t.buffer) > ByteLen(file_buffer)
     THEN /\ Panic(t)
          /\ buffer_lock' = Mutex(FALSE, TRUE)
          /\ UNCHANGED file_buffer
     ELSE /\ file_buffer' = CopyToSlice(file_buffer, off, t.buffer)
          /\ buffer_lock' = Mutex(FALSE, FALSE)
          /\ Step(t, [t EXCEPT !.pc = "lock_pieces", !.guard = "none",
                               !.piece = NoPiece, !.offset = 0, !.buffer = <<>>])
          /\ UNCHANGED peers
  /\ rx' = NoRx
  /\ UNCHANGED <<swarm, pieces, pieces_lock, joined, main_pc, output_file, probes>>

\* ---------------------------------------------------------- download_file
\* A join loop that drops the result of handle.join(): a thread that
\* panicked counts as one that returned.
JoinIgnoringPanics ==
  /\ main_pc = "join"
  /\ joined < NumWorkers
  /\ joined < CopiesIn(Idle("done"), threads) + CopiesIn(Idle("panicked"), threads)
  /\ joined' = joined + 1
  /\ rx' = NoRx
  /\ UNCHANGED <<swarm, peers, pieces, pieces_lock, file_buffer, buffer_lock,
                 threads, main_pc, output_file, probes>>

\* handle.join().unwrap() on the next handle: it returns once that thread
\* has returned, and panics, ending the process, if that thread panicked.
Join ==
  /\ main_pc = "join"
  /\ joined < NumWorkers
  /\ \/ /\ \E t \in Running : t.pc = "done" /\ joined < threads[t]
        /\ joined' = joined + 1
        /\ UNCHANGED main_pc
     \/ /\ \E t \in Running : t.pc = "panicked"
        /\ main_pc' = "aborted"
        /\ UNCHANGED joined
  /\ rx' = NoRx
  /\ UNCHANGED <<swarm, peers, pieces, pieces_lock, file_buffer, buffer_lock,
                 threads, output_file, probes>>

\* file_buffer.lock().unwrap() and std::fs::write(output, file.as_slice()).
WriteOutput ==
  /\ main_pc = "join"
  /\ joined = NumWorkers
  /\ ~buffer_lock.locked
  /\ IF buffer_lock.poisoned
     THEN main_pc' = "aborted" /\ UNCHANGED output_file
     ELSE main_pc' = "written" /\ output_file' = file_buffer
  /\ rx' = NoRx
  /\ UNCHANGED <<swarm, peers, pieces, pieces_lock, file_buffer, buffer_lock,
                 threads, joined, probes>>

DlInit ==
  /\ peers \in {[i \in 1 .. n |-> i] : n \in 0 .. NumPeers}
  /\ swarm \in {f \in [Peers -> BitfieldChoices] :
                  \A p \in Peers : p > Len(peers) => f[p] = <<>>}
  /\ pieces = [i \in 1 .. PieceCount |-> Piece(i - 1, InfoPieces[i])]
  /\ pieces_lock = Mutex(FALSE, FALSE)
  /\ file_buffer = Normalize(<<ZeroRun(file_length)>>)
  /\ buffer_lock = Mutex(FALSE, FALSE)
  /\ threads = [t \in {Idle("run")} |-> NumWorkers]
  /\ joined = 0
  /\ main_pc = "join"
  /\ output_file = <<>>
  /\ rx = NoRx

DlNext ==
  \/ \E t \in Running : RunPop(t)
  \/ \E t \in Running : Connect(t)
  \/ \E t \in Running : DoHandshake(t)
  \/ \E t \in Running : ReadBitfield(t)
  \/ \E t \in Running : SendInterested(t)
  \/ \E t \in Running : ReadUnchoke(t)
  \/ \E t \in Running : LockPieces(t)
  \/ \E t \in Running : Claim(t)
  \/ \E t \in Running : SendRequest(t)
  \/ \E t \in Running : RecvPiece(t)
  \/ \E t \in Running : Verify(t)
  \/ \E t \in Running : LockBuffer(t)
  \/ \E t \in Running : Install(t)
  \/ Join
  \/ WriteOutput

\* ====================================================== request_peice alone
\* The loop of request_peice over a stream that answers every Request with
\* the block asked for; rq.sent is what send_message wrote, in order.
MaxReqIndex == 3
ReqSizes ==
  {1, CHUNK_SIZE - 1, CHUNK_SIZE, CHUNK_SIZE + 1, 2 * CHUNK_SIZE, 32768, 40000,
   3 * CHUNK_SIZE + 5}
ReqLengths == {1, CHUNK_SIZE, 40000, 92063, 5 * CHUNK_SIZE}

Rq(pc, piece_index, size, length, offset, sent) ==
  [pc |-> pc, piece_index |-> piece_index, size |-> size, file_length |-> length,
   offset |-> offset, sent |-> sent]
RqIdle == Rq("idle", 0, 0, 0, 0, <<>>)

RqInit ==
  \E i \in 0 .. MaxReqIndex, size \in ReqSizes, length \in ReqLengths :
    /\ i * size < length
    /\ rq = Rq(LoopHead(0, PieceSize(i, size, length)), i, size, length, 0, <<>>)

RqPieceSize == PieceSize(rq.piece_index, rq.size, rq.file_length)
RqBlockSize == BlockSize(RqPieceSize, rq.offset)

\* send_message(Request(piece_index, offset, block_size))
RqSend ==
  /\ rq.pc = "request"
  /\ rq' = [rq EXCEPT
       !.pc = "piece",
       !.sent = Append(@, send_message("Request",
                  RequestPayload(rq.piece_index, rq.offset, RqBlockSize)))]
  /\ UNCHANGED <<dl_vars, bf, tf, tr, bn>>

\* read_message::<Piece>, buffer.extend, offset += block_size
RqRecv ==
  /\ rq.pc = "piece"
  /\ rq' = [rq EXCEPT
       !.offset = rq.offset + RqBlockSize,
       !.pc = LoopHead(rq.offset + RqBlockSize, RqPieceSize)]
  /\ UNCHANGED <<dl_vars, bf, tf, tr, bn>>

\* ======================================================== has_piece alone
MaxBitfieldLen == 2
BitfieldBytes == {0, 1, 64, 128, 129, 255}
BitfieldSeqs ==
  UNION {[1 .. n -> BitfieldBytes] : n \in 0 .. MaxBitfieldLen}

Bf(pc, bits, piece_index, panicked, value) ==
  [pc |-> pc, bits |-> bits, piece_index |-> piece_index, panicked |-> panicked,
   value |-> value]
BfIdle == Bf("idle", <<>>, 0, FALSE, FALSE)

BfInit ==
  \E bits \in BitfieldSeqs, i \in 0 .. 8 * MaxBitfieldLen - 1 :
    bf = Bf("call", bits, i, FALSE, FALSE)

\* bitfield.has_piece(piece_index): a failed assertion, or the value.
BfCall ==
  /\ bf.pc = "call"
  /\ bf' = IF has_piece_asserts(bf.bits, bf.piece_index)
           THEN [bf EXCEPT !.pc = "returned",
                           !.value = has_piece(bf.bits, bf.piece_index)]
           ELSE [bf EXCEPT !.pc = "returned", !.panicked = TRUE]
  /\ UNCHANGED <<dl_vars, rq, tf, tr, bn>>

\* ================================================= torrent_file.rs: Info
\* Bencode over bytes (ASCII codes): integers i<digits>e, byte strings
\* <length>:<bytes>, dictionaries d(<key><value>)*e.
PIECE_LEN == 20

RECURSIVE Digits(_)
Digits(n) == IF n < 10 THEN <<48 + n>> ELSE Digits(n \div 10) \o <<48 + (n % 10)>>

BInt(n) == [t |-> "int", n |-> n, b |-> <<>>]
BBytes(b) == [t |-> "bytes", n |-> 0, b |-> b]
Entry(key, value) == [key |-> key, value |-> value]

EncInt(n) == <<105>> \o (IF n < 0 THEN <<45>> \o Digits(0 - n) ELSE Digits(n)) \o <<101>>
EncBytes(b) == Digits(Len(b)) \o <<58>> \o b
EncValue(v) == IF v.t = "int" THEN EncInt(v.n) ELSE EncBytes(v.b)

RECURSIVE EncEntries(_)
EncEntries(entries) ==
  IF entries = <<>> THEN <<>>
  ELSE EncBytes(Head(entries).key) \o EncValue(Head(entries).value)
       \o EncEntries(Tail(entries))

EncDict(entries) == <<100>> \o EncEntries(entries) \o <<101>>

\* Byte strings compared as raw bytes.
RECURSIVE LexLess(_, _)
LexLess(a, b) ==
  IF b = <<>> THEN FALSE
  ELSE IF a = <<>> THEN TRUE
  ELSE IF Head(a) # Head(b) THEN Head(a) < Head(b)
  ELSE LexLess(Tail(a), Tail(b))

RECURSIVE InsertByKey(_, _)
InsertByKey(e, sorted) ==
  IF sorted = <<>> THEN <<e>>
  ELSE IF LexLess(e.key, Head(sorted).key) THEN <<e>> \o sorted
  ELSE <<Head(sorted)>> \o InsertByKey(e, Tail(sorted))

\* The serializer writes a struct as a dictionary with its keys sorted.
RECURSIVE SortByKey(_)
SortByKey(entries) ==
  IF entries = <<>> THEN <<>>
  ELSE InsertByKey(Head(entries), SortByKey(Tail(entries)))

\* The keys of Info: "length", "name", "piece length", "pieces"; and two
\* keys an info dictionary may also hold: "md5sum", "private".
KeyLength == <<108, 101, 110, 103, 116, 104>>
KeyName == <<110, 97, 109, 101>>
KeyPieceLength == <<112, 105, 101, 99, 101, 32, 108, 101, 110, 103, 116, 104>>
KeyPieces == <<112, 105, 101, 99, 101, 115>>
KeyMd5sum == <<109, 100, 53, 115, 117, 109>>
KeyPrivate == <<112, 114, 105, 118, 97, 116, 101>>

\* struct Info
Info(length, name, pl, hashes) ==
  [length |-> length, name |-> name, piece_length |-> pl, pieces |-> hashes]
NoInfo == Info(0, <<>>, 0, <<>>)

\* deserialize_piece, visit_bytes: one Piece per PIECE_LEN bytes while
\* v.len() - start >= PIECE_LEN.
RECURSIVE visit_bytes(_, _)
visit_bytes(v, start) ==
  IF Len(v) - start >= PIECE_LEN
  THEN <<SubSeq(v, start + 1, start + PIECE_LEN)>> \o visit_bytes(v, start + PIECE_LEN)
  ELSE <<>>

\* serialize_piece: piece.iter().flatten()
RECURSIVE serialize_piece(_)
serialize_piece(hashes) ==
  IF hashes = <<>> THEN <<>> ELSE Head(hashes) \o serialize_piece(Tail(hashes))

\* #[derive(Deserialize)] on Info: each field is read from the entry with its
\* key; entries with other keys are skipped.
HasField(entries, key, t) ==
  \E k \in 1 .. Len(entries) : entries[k].key = key /\ entries[k].value.t = t
Field(entries, key) ==
  entries[CHOOSE k \in 1 .. Len(entries) : entries[k].key = key].value

InfoParses(entries) ==
  /\ HasField(entries, KeyLength, "int") /\ Field(entries, KeyLength).n >= 0
  /\ HasField(entries, KeyName, "bytes")
  /\ HasField(entries, KeyPieceLength, "int") /\ Field(entries, KeyPieceLength).n >= 0
  /\ HasField(entries, KeyPieces, "bytes")

InfoFrom(entries) ==
  Info(Field(entries, KeyLength).n, Field(entries, KeyName).b,
       Field(entries, KeyPieceLength).n, visit_bytes(Field(entries, KeyPieces).b, 0))

\* #[derive(Serialize)] on Info and serde_bencode::to_bytes(self).
InfoToBytes(info) ==
  EncDict(SortByKey(
    <<Entry(KeyLength, BInt(info.length)), Entry(KeyName, BBytes(info.name)),
      Entry(KeyPieceLength, BInt(info.piece_length)),
      Entry(KeyPieces, BBytes(serialize_piece(info.pieces)))>>))

\* Info::hash: Sha1 of the encoded struct.
InfoHash(info) == Digest(InfoToBytes(info))

\* The info dictionaries read: the four keys of a single-file torrent, with
\* or without "md5sum" and "private", keys in sorted order.
MaxHashes == 2
TfLengths == {0, 5, 92063}
TfNames == {<<97>>, <<115, 46, 116, 120, 116>>}
TfPieceLengths == {16, 32768}
TfTrailing == {0, 1, PIECE_LEN - 1}
TfPieces ==
  {[i \in 1 .. n * PIECE_LEN + r |-> (7 * i) % 256] :
   n \in 0 .. MaxHashes, r \in TfTrailing}
TfSources ==
  {<<Entry(KeyLength, BInt(length))>>
     \o (IF md5 THEN <<Entry(KeyMd5sum, BBytes(<<48, 49>>))>> ELSE <<>>)
     \o <<Entry(KeyName, BBytes(name)), Entry(KeyPieceLength, BInt(pl)),
          Entry(KeyPieces, BBytes(hashes))>>
     \o (IF private THEN <<Entry(KeyPrivate, BInt(1))>> ELSE <<>>) :
   length \in TfLengths, name \in TfNames, pl \in TfPieceLengths,
   hashes \in TfPieces, md5 \in BOOLEAN, private \in BOOLEAN}

Tf(pc, source, info, encoded) ==
  [pc |-> pc, source |-> source, info |-> info, encoded |-> encoded,
   hash |-> Digest(encoded)]
TfIdle == Tf("idle", <<>>, NoInfo, <<>>)

TfInit == \E source \in TfSources : tf = Tf("file", source, NoInfo, <<>>)

\* serde_bencode::from_bytes: the info dictionary into the typed Info.
TfParse ==
  /\ tf.pc = "file"
  /\ tf' = IF InfoParses(tf.source)
           THEN [tf EXCEPT !.pc = "parsed", !.info = InfoFrom(tf.source)]
           ELSE [tf EXCEPT !.pc = "error"]
  /\ UNCHANGED <<dl_vars, rq, bf, tr, bn>>

\* file.info.hash()
TfHash ==
  /\ tf.pc = "parsed"
  /\ tf' = [tf EXCEPT !.pc = "hashed", !.encoded = InfoToBytes(tf.info),
                      !.hash = InfoHash(tf.info)]
  /\ UNCHANGED <<dl_vars, rq, bf, tr, bn>>

\* ============================================ tracker.rs: deserialize_peers
PEER_SIZE == 6
MaxPeerBytes == 13

\* Peer(SocketAddrV4::new(Ipv4Addr::new(chunk[0..3]), port))
Peer(chunk) ==
  [ip |-> <<chunk[1], chunk[2], chunk[3], chunk[4]>>,
   port |-> chunk[5] * 256 + chunk[6]]

\* v.chunks_exact(PEER_SIZE).map(..).collect(): a Peer per whole chunk; the
\* remainder of fewer than PEER_SIZE bytes is left out.
RECURSIVE chunks_exact(_, _)
chunks_exact(v, start) ==
  IF Len(v) - start >= PEER_SIZE
  THEN <<Peer(SubSeq(v, start + 1, start + PEER_SIZE))>>
       \o chunks_exact(v, start + PEER_SIZE)
  ELSE <<>>

\* deserialize_peers, visit_bytes: always Ok.
deserialize_peers(v) == [ok |-> TRUE, peers |-> chunks_exact(v, 0)]

TrBytes ==
  {[i \in 1 .. n |-> (a * i + b) % 256] :
   n \in 0 .. MaxPeerBytes, a \in {1, 37, 255}, b \in {0, 200, 255}}

Tr(pc, bytes, discovered) == [pc |-> pc, bytes |-> bytes, peers |-> discovered]
TrIdle == Tr("idle", <<>>, <<>>)
TrInit == \E v \in TrBytes : tr = Tr("response", v, <<>>)

\* serde_bencode::from_bytes::<TrackerResponse>(&bytes)?
TrParse ==
  /\ tr.pc = "response"
  /\ tr' = IF deserialize_peers(tr.bytes).ok
           THEN [tr EXCEPT !.pc = "parsed", !.peers = deserialize_peers(tr.bytes).peers]
           ELSE [tr EXCEPT !.pc = "error"]
  /\ UNCHANGED <<dl_vars, rq, bf, tf, bn>>

\* ========================================== main.rs: decode_bencoded_value
\* The text is a sequence of characters.  Only the branch for 'i' is kept.
MaxNumLen == 3
DigitChars == <<"0", "1", "2", "3", "4", "5", "6", "7", "8", "9">>
IsDigit(c) == \E d \in 1 .. 10 : DigitChars[d] = c
DigitValue(c) == (CHOOSE d \in 1 .. 10 : DigitChars[d] = c) - 1

\* The value of a run of digits, folded left to right.
RECURSIVE DigitsValue(_, _)
DigitsValue(acc, digits) ==
  IF digits = <<>> THEN acc
  ELSE DigitsValue(acc * 10 + DigitValue(Head(digits)), Tail(digits))

\* str::parse::<i64>: an optional '+' or '-', then one or more ASCII digits
\* and nothing else (the texts here are too short to overflow an i64).
parse_i64(num) ==
  LET signed == num # <<>> /\ Head(num) \in {"+", "-"}
      digits == IF signed THEN Tail(num) ELSE num
  IN  IF digits = <<>> \/ \E k \in 1 .. Len(digits) : ~IsDigit(digits[k])
      THEN [ok |-> FALSE, value |-> 0]
      ELSE [ok |-> TRUE,
            value |-> IF signed /\ Head(num) = "-"
                      THEN 0 - DigitsValue(0, digits) ELSE DigitsValue(0, digits)]

\* str::split_once('e'): the place of the first 'e', 0 when there is none.
split_once(text, c) ==
  IF \E k \in 1 .. Len(text) : text[k] = c
  THEN CHOOSE k \in 1 .. Len(text) : text[k] = c /\ \A j \in 1 .. k - 1 : text[j] # c
  ELSE 0

\* decode_bencoded_value, first_char = 'i'.
decode_bencoded_value(encoded_value) ==
  LET text == Tail(encoded_value)
      k == split_once(text, "e")
  IN  IF k = 0 THEN [ok |-> FALSE, value |-> 0, rest |-> <<>>]
      ELSE LET n == parse_i64(SubSeq(text, 1, k - 1)) IN
           IF n.ok THEN [ok |-> TRUE, value |-> n.value,
                         rest |-> SubSeq(text, k + 1, Len(text))]
           ELSE [ok |-> FALSE, value |-> 0, rest |-> <<>>]

BnChars == {"-", "+", "0", "2", "3", "4"}
BnTexts ==
  {<<"i">> \o num \o tail :
   num \in UNION {[1 .. n -> BnChars] : n \in 0 .. MaxNumLen},
   tail \in {<<"e">>, <<>>}}

Bn(pc, text, result) == [pc |-> pc, text |-> text, result |-> result]
BnIdle == Bn("idle", <<>>, [ok |-> FALSE, value |-> 0, rest |-> <<>>])
BnInit == \E text \in BnTexts : bn = Bn("call", text, BnIdle.result)

BnDecode ==
  /\ bn.pc = "call"
  /\ bn' = [bn EXCEPT !.pc = "returned", !.result = decode_bencoded_value(bn.text)]
  /\ UNCHANGED <<dl_vars, rq, bf, tf, tr>>

\* ========================================================= specifications
\* The download with nothing else running.
DlIdle ==
  /\ peers = <<>>
  /\ swarm = [p \in Peers |-> <<>>]
  /\ pieces = [i \in 1 .. PieceCount |-> Piece(i - 1, InfoPieces[i])]
  /\ pieces_lock = Mutex(FALSE, FALSE)
  /\ file_buffer = Normalize(<<ZeroRun(file_length)>>)
  /\ buffer_lock = Mutex(FALSE, FALSE)
  /\ threads = [t \in {Idle("run")} |-> NumWorkers]
  /\ joined = 0
  /\ main_pc = "idle"
  /\ output_file = <<>>
  /\ rx = NoRx

\* download_file
Init == DlInit /\ rq = RqIdle /\ bf = BfIdle /\ tf = TfIdle /\ tr = TrIdle /\ bn = BnIdle
Next == DlNext
Spec == Init /\ [][Next]_vars

\* A step in which a session fails: run's Err arm pushes the peer back, or
\* the worker's thread panics.
SessionFails ==
  \/ Len(peers') > Len(peers)
  \/ CopiesIn(Idle("panicked"), threads') > CopiesIn(Idle("panicked"), threads)

\* download_file in the runs in which no session fails
NextOk ==
  \/ \E t \in Running : RunPop(t) /\ ~SessionFails
  \/ \E t \in Running : Connect(t) /\ ~SessionFails
  \/ \E t \in Running : DoHandshake(t) /\ ~SessionFails
  \/ \E t \in Running : ReadBitfield(t) /\ ~SessionFails
  \/ \E t \in Running : SendInterested(t) /\ ~SessionFails
  \/ \E t \in Running : ReadUnchoke(t) /\ ~SessionFails
  \/ \E t \in Running : LockPieces(t) /\ ~SessionFails
  \/ \E t \in Running : Claim(t) /\ ~SessionFails
  \/ \E t \in Running : SendRequest(t) /\ ~SessionFails
  \/ \E t \in Running : RecvPiece(t) /\ ~SessionFails
  \/ \E t \in Running : Verify(t) /\ ~SessionFails
  \/ \E t \in Running : LockBuffer(t) /\ ~SessionFails
  \/ \E t \in Running : Install(t) /\ ~SessionFails
  \/ Join /\ ~SessionFails
  \/ WriteOutput /\ ~SessionFails
SpecOk == Init /\ [][NextOk]_vars

\* download_file on threads of the operating system: a worker that can take
\* its next step takes it, and so does the thread that joins the workers.
Fairness ==
  /\ WF_vars(\E t \in Running : RunPop(t))
  /\ WF_vars(\E t \in Running : Connect(t))
  /\ WF_vars(\E t \in Running : DoHandshake(t))
  /\ WF_vars(\E t \in Running : ReadBitfield(t))
  /\ WF_vars(\E t \in Running : SendInterested(t))
  /\ WF_vars(\E t \in Running : ReadUnchoke(t))
  /\ WF_vars(\E t \in Running : LockPieces(t))
  /\ WF_vars(\E t \in Running : Claim(t))
  /\ WF_vars(\E t \in Running : SendRequest(t))
  /\ WF_vars(\E t \in Running : RecvPiece(t))
  /\ WF_vars(\E t \in Running : Verify(t))
  /\ WF_vars(\E t \in Running : LockBuffer(t))
  /\ WF_vars(\E t \in Running : Install(t))
  /\ WF_vars(Join)
  /\ WF_vars(WriteOutput)
FairSpec == Init /\ [][Next]_vars /\ Fairness

\* request_peice over every (piece_index, size, file_length) of RqInit
InitRq == DlIdle /\ RqInit /\ bf = BfIdle /\ tf = TfIdle /\ tr = TrIdle /\ bn = BnIdle
NextRq == RqSend \/ RqRecv
SpecRq == InitRq /\ [][NextRq]_vars

\* has_piece over every (bytes, piece_index) of BfInit
InitBf == DlIdle /\ rq = RqIdle /\ BfInit /\ tf = TfIdle /\ tr = TrIdle /\ bn = BnIdle
NextBf == BfCall
SpecBf == InitBf /\ [][NextBf]_vars

\* Info over every info dictionary of TfSources
InitTf == DlIdle /\ rq = RqIdle /\ bf = BfIdle /\ TfInit /\ tr = TrIdle /\ bn = BnIdle
NextTf == TfParse \/ TfHash
SpecTf == InitTf /\ [][NextTf]_vars

\* deserialize_peers over every byte string of TrBytes
InitTr == DlIdle /\ rq = RqIdle /\ bf = BfIdle /\ tf = TfIdle /\ TrInit /\ bn = BnIdle
NextTr == TrParse
SpecTr == InitTr /\ [][NextTr]_vars

\* decode_bencoded_value over every text of BnTexts
InitBn == DlIdle /\ rq = RqIdle /\ bf = BfIdle /\ tf = TfIdle /\ tr = TrIdle /\ BnInit
NextBn == BnDecode
SpecBn == InitBn /\ [][NextBn]_vars

\* ================================================================ properties
Completed == main_pc = "written"
PieceIndices == 0 .. PieceCount - 1

\* piece_size(i) = min(piece_length, Info.length - i * piece_length)
ExpectedSize(i) ==
  IF file_length - i * piece_length < piece_length
  THEN file_length - i * piece_length ELSE piece_length

\* The range of piece i in a buffer hashes to P_i.
HashesTo(buf, i) ==
  Sha1(Slice(buf, i * piece_length, i * piece_length + ExpectedSize(i))) = InfoPieces[i + 1]

Queued(i) == \E k \in 1 .. Len(pieces) : pieces[k].index = i
Holders(i) == {t \in Running : t.piece.index = i}
HeldByOne(i) == \E t \in Holders(i) : Holders(i) = {t} /\ threads[t] = 1
Installed(i) == HashesTo(file_buffer, i)

\* Every piece index is set in the bitfield of at least one peer of the pool.
Covered ==
  \A i \in PieceIndices :
    \E p \in Peers : has_piece_asserts(swarm[p], i) /\ has_piece(swarm[p], i)

\* A thread in state t takes the step: one thread fewer is in state t.
Leaves(t) == CopiesIn(t, threads') < CopiesIn(t, threads)
InSession(t) == t.pc \notin {"run", "done", "panicked"}

\* The session of t is at the scan of the queue and the scan finds nothing.
NothingToClaim(t) ==
  t.pc = "claim" /\ ~position_panics(t.bitfield, pieces) /\ position(t.bitfield, pieces) = 0

\* C1: in every completed run the output has Info.length bytes and the range
\* of every piece i hashes to P_i.
C1_OutputVerified ==
  Completed =>
    /\ ByteLen(output_file) = file_length
    /\ \A i \in PieceIndices : HashesTo(output_file, i)

\* C2: download_file writes the output only if the work queue is empty and
\* every piece has been installed.
C2_WritesOnlyWhenQueueEmpty ==
  Completed => pieces = <<>> /\ \A i \in PieceIndices : Installed(i)

\* C3: at every moment of the download each piece is queued, held by exactly
\* one worker, or installed; a piece claimed in a session that fails is back
\* in the queue.
C3_PieceNeverLost ==
  main_pc = "join" =>
    \A i \in PieceIndices : Queued(i) \/ HeldByOne(i) \/ Installed(i)

\* C4: a step that ends a session, other than the scan that finds nothing to
\* claim, pushes the peer back onto the pool and leaves the worker at the
\* head of its loop.
C4_FailureReturnsPeer ==
  [][\A t \in Running :
       (InSession(t) /\ ~NothingToClaim(t) /\ Leaves(t)
        /\ (Step(t, Idle("run")) \/ Step(t, Idle("panicked"))))
       => (Step(t, Idle("run")) /\ peers' = Append(peers, t.peer))]_vars

\* C5: every completed download from peers that together cover all pieces
\* writes the same bytes: those of the file the torrent describes, which a
\* run without failures writes (C5_ReferenceRun).
C5_SameOutput ==
  (Completed /\ Covered) => output_file = RefBytes(0, file_length)

C5_ReferenceRun ==
  Completed /\ Covered /\ output_file = RefBytes(0, file_length)

\* C6: a thread whose assembled buffer does not hash to the expected hash
\* goes on as after an error (back at the head of run's loop, not panicked)
\* and the shared buffer is not changed.
C6_MismatchIsAnError ==
  [][\A t \in Running :
       (t.pc = "verify" /\ t.piece.hash # Sha1(t.buffer) /\ Leaves(t))
       => (Step(t, Idle("run")) /\ file_buffer' = file_buffer)]_vars

\* C7: a session goes on to read the Bitfield only if the reply to the
\* handshake had pstrlen 19, pstr "BitTorrent protocol" and the info_hash
\* that was sent.
C7_HandshakeValidated ==
  \A t \in Running :
    t.pc = "bitfield" =>
      /\ t.hs.protocol_len = 19
      /\ t.hs.protocol = "BitTorrent protocol"
      /\ t.hs.info_hash = TorrentInfoHash

\* What C8 expects of request number k (from 1) of a piece of size n.
C8PieceSize ==
  IF rq.file_length - rq.piece_index * rq.size < rq.size
  THEN rq.file_length - rq.piece_index * rq.size ELSE rq.size
C8Offset(k) == (k - 1) * 16384
C8Length(k) ==
  IF C8PieceSize - C8Offset(k) < 16384 THEN C8PieceSize - C8Offset(k) ELSE 16384
C8Count == (C8PieceSize + 16383) \div 16384

RECURSIVE C8Sum(_)
C8Sum(k) ==
  IF k = 0 THEN 0 ELSE FromBe32(SubSeq(rq.sent[k].bytes, 9, 12)) + C8Sum(k - 1)

\* C8: the frames sent for piece i are, in order, Request(i, offset,
\* min(16384, piece_size - offset)) for offset = 0, 16384, ... while
\* offset < piece_size: contiguous, and summing to piece_size when the loop
\* has ended.
C8_RequestSequence ==
  /\ Len(rq.sent) <= C8Count
  /\ \A k \in 1 .. Len(rq.sent) :
       /\ rq.sent[k].length = 13 /\ rq.sent[k].id = 6 /\ rq.sent[k].block = <<>>
       /\ Len(rq.sent[k].bytes) = 12
       /\ FromBe32(SubSeq(rq.sent[k].bytes, 1, 4)) = rq.piece_index
       /\ FromBe32(SubSeq(rq.sent[k].bytes, 5, 8)) = C8Offset(k)
       /\ FromBe32(SubSeq(rq.sent[k].bytes, 9, 12)) = C8Length(k)
       /\ C8Length(k) >= 1
       /\ (k < C8Count => C8Length(k) = 16384)
  /\ rq.pc = "verify" =>
       /\ Len(rq.sent) = C8Count
       /\ C8Sum(Len(rq.sent)) = C8PieceSize

\* piece_length 40000, total 92063, index 2: one request, of 12063 bytes.
C8_LastPieceExample ==
  /\ rq.pc = "verify" /\ rq.size = 40000 /\ rq.file_length = 92063 /\ rq.piece_index = 2
  /\ Len(rq.sent) = 1
  /\ rq.sent[1].bytes = <<0, 0, 0, 2>> \o <<0, 0, 0, 0>> \o <<0, 0, 47, 31>>

\* Bit i counted MSB-first within byte i / 8.
C9Bit(bits, i) == (bits[(i \div 8) + 1] \div (2 ^ (7 - (i % 8)))) % 2 = 1

\* C9: has_piece(i) returns a boolean for every byte sequence and every
\* index i, true exactly when bit i, counted MSB-first, is set.
C9_HasPieceTotal ==
  bf.pc = "returned" =>
    /\ ~bf.panicked
    /\ bf.value = C9Bit(bf.bits, bf.piece_index)

\* C10: the typed Info encoded again is the info dictionary it was parsed
\* from, byte for byte, and so Info.hash() is the hash of that dictionary.
C10_InfoRoundTrip ==
  tf.pc = "hashed" =>
    /\ tf.encoded = EncDict(tf.source)
    /\ tf.hash = Digest(EncDict(tf.source))

\* C11: parsing the pieces field fails when its length is not a multiple of
\* 20, and otherwise gives its consecutive 20-byte hashes in order.
C11_PiecesMultipleOf20 ==
  tf.pc \in {"parsed", "hashed", "error"} =>
    LET v == Field(tf.source, KeyPieces).b IN
    IF Len(v) % 20 # 0 THEN tf.pc = "error"
    ELSE /\ tf.pc # "error"
         /\ Len(tf.info.pieces) = Len(v) \div 20
         /\ \A k \in 1 .. Len(tf.info.pieces) :
              tf.info.pieces[k] = SubSeq(v, 20 * (k - 1) + 1, 20 * k)

\* C12: parsing the compact peers string fails when its length is not
\* divisible by 6, and otherwise gives one Peer per 6-byte record in order:
\* address from bytes 0..3, port from bytes 4..5 big-endian.
C12_PeersMultipleOf6 ==
  tr.pc \in {"parsed", "error"} =>
    IF Len(tr.bytes) % 6 # 0 THEN tr.pc = "error"
    ELSE /\ tr.pc = "parsed"
         /\ Len(tr.peers) = Len(tr.bytes) \div 6
         /\ \A k \in 1 .. Len(tr.peers) :
              /\ tr.peers[k].ip = SubSeq(tr.bytes, 6 * k - 5, 6 * k - 2)
              /\ tr.peers[k].port = tr.bytes[6 * k - 1] * 256 + tr.bytes[6 * k]

\* The text between 'i' and the first 'e' is canonical: 0, or an optional
\* '-' and digits that do not start with 0.
C13Canonical(num) ==
  LET digits == IF num # <<>> /\ Head(num) = "-" THEN Tail(num) ELSE num IN
  /\ digits # <<>>
  /\ \A k \in 1 .. Len(digits) : IsDigit(digits[k])
  /\ \/ num = <<"0">>
     \/ Head(digits) # "0"

\* C13: the decoder returns the value of an integer in canonical form and an
\* error for any other text between 'i' and 'e' (i00e, i-0e, no 'e').
C13_CanonicalIntegers ==
  bn.pc = "returned" =>
    LET text == Tail(bn.text)
        k == split_once(text, "e")
        num == SubSeq(text, 1, k - 1)
    IN  IF k # 0 /\ C13Canonical(num)
        THEN /\ bn.result.ok
             /\ bn.result.value =
                  IF Head(num) = "-" THEN 0 - DigitsValue(0, Tail(num))
                  ELSE DigitsValue(0, num)
        ELSE ~bn.result.ok

NetworkPcs ==
  {"connect", "handshake", "bitfield", "interested", "unchoke", "request", "piece"}

\* C14: a worker that is connecting, sending or waiting to receive does not
\* own the work queue's lock; the lock is owned only by the one worker that
\* is at the scan-and-remove step.
C14_NoQueueLockDuringIO ==
  /\ \A t \in Running : t.pc \in NetworkPcs => t.guard # "pieces"
  /\ pieces_lock.locked =>
       \E t \in Running :
         /\ t.pc = "claim" /\ t.guard = "pieces" /\ threads[t] = 1
         /\ \A u \in Running : u.guard = "pieces" => u = t

\* One worker waits for a Piece while another owns the lock of the queue.
C14_IOBesideLock ==
  /\ pieces_lock.locked
  /\ \E t \in Running : t.pc = "piece" /\ t.guard = "none"
  /\ \E u \in Running : u.pc = "claim" /\ u.guard = "pieces"

\* The places of the queue whose piece index is set in the bitfield.
C15Matches(bits, queue) ==
  {k \in 1 .. Len(queue) :
     /\ queue[k].index \div 8 < Len(bits)
     /\ C9Bit(bits, queue[k].index)}

\* C15: the claim step is taken by the one thread that owns the lock of the
\* queue; it removes the earliest entry whose index is set in the peer's
\* bitfield and keeps the others in order, or leaves the queue as it is when
\* no entry matches; no other step changes the queue.
C15_ClaimRemovesEarliest ==
  /\ [](\A t \in Running :
          t.pc = "claim" =>
            /\ t.guard = "pieces" /\ pieces_lock.locked /\ threads[t] = 1
            /\ \A u \in Running : u.pc = "claim" => u = t)
  /\ [][\A t \in Running :
          (t.pc = "claim" /\ Leaves(t)) =>
            LET hits == C15Matches(t.bitfield, pieces) IN
            IF hits = {} THEN pieces' = pieces
            ELSE LET k == CHOOSE h \in hits : \A j \in hits : h <= j IN
                 /\ pieces' = [j \in 1 .. Len(pieces) - 1 |->
                                 IF j < k THEN pieces[j] ELSE pieces[j + 1]]
                 /\ \E t2 \in BagToSet(threads') : t2.piece = pieces[k]]_vars
  /\ [][(~\E t \in Running : t.pc = "claim" /\ Leaves(t)) => pieces' = pieces]_vars

\* A claim took the second entry of the queue and left the first.
C15_ClaimedPastHead ==
  /\ Len(pieces) = 1 /\ pieces[1].index = 0
  /\ \E t \in Running : t.pc = "request" /\ t.piece.index = 1
  /\ ~Installed(0)

\* C16: the install step is taken under the lock of the output buffer,
\* changes only the bytes of [i * piece_length, i * piece_length +
\* piece_size(i)), which end within Info.length and do not overlap the range
\* of another piece; no other step changes the buffer.
C16_InstallFrame ==
  /\ [](\A i, j \in PieceIndices :
          /\ i * piece_length + ExpectedSize(i) <= file_length
          /\ i < j => i * piece_length + ExpectedSize(i) <= j * piece_length)
  /\ [][\A t \in Running :
          (t.pc = "install" /\ Leaves(t)) =>
            LET off == t.piece.index * piece_length
                n == ExpectedSize(t.piece.index)
            IN  /\ t.guard = "file_buffer" /\ buffer_lock.locked
                /\ ByteLen(file_buffer') = file_length
                /\ Slice(file_buffer', 0, off) = Slice(file_buffer, 0, off)
                /\ Slice(file_buffer', off + n, file_length)
                     = Slice(file_buffer, off + n, file_length)
                /\ Slice(file_buffer', off, off + n) = Normalize(t.buffer)]_vars
  /\ [][(~\E t \in Running : t.pc = "install" /\ Leaves(t))
          => file_buffer' = file_buffer]_vars

\* The last piece is installed and the range of piece 0 is still zero.
C16_LastPieceInstalled ==
  /\ main_pc = "join"
  /\ file_buffer = <<ZeroRun((NumPieces - 1) * piece_length),
                     RefRun(LastPieceLen, (NumPieces - 1) * piece_length)>>

\* The peers a worker holds in a session, and how often a peer is pooled.
Sessions(p) == {t \in Running : InSession(t) /\ t.peer = p}
Pooled(p) == Cardinality({k \in 1 .. Len(peers) : peers[k] = p})

\* C17: each peer is in the pool once, or held by exactly one worker, or
\* discarded, never in two places; and a worker stops only at the head of
\* run's loop with the pool empty.
C17_PeerInOnePlace ==
  /\ [](\A p \in Peers :
          \/ Pooled(p) = 0 /\ Sessions(p) = {}
          \/ Pooled(p) = 1 /\ Sessions(p) = {}
          \/ Pooled(p) = 0 /\ \E t \in Sessions(p) : Sessions(p) = {t} /\ threads[t] = 1)
  /\ [][\A t \in Running :
          (Leaves(t) /\ (Step(t, Idle("done")) \/ Step(t, Idle("panicked"))))
          => (t.pc = "run" /\ peers = <<>>)]_vars

\* The order of the steps of a session.
C18Order ==
  {<<"connect", "handshake">>, <<"handshake", "bitfield">>,
   <<"bitfield", "interested">>, <<"interested", "unchoke">>,
   <<"unchoke", "lock_pieces">>, <<"lock_pieces", "claim">>,
   <<"claim", "request">>, <<"request", "piece">>, <<"piece", "request">>,
   <<"piece", "verify">>, <<"verify", "lock_buffer">>,
   <<"lock_buffer", "install">>, <<"install", "lock_pieces">>}

\* C18: a session goes through handshake, Bitfield, Interested, Unchoke and
\* then Request and Piece in turn; it goes past the read of the Bitfield only
\* when a Bitfield was read and past the read of the Unchoke only when an
\* Unchoke was read, so no Request is sent otherwise.
C18_SessionOrder ==
  [][\A t \in Running : \A t2 \in BagToSet(threads') :
       (InSession(t) /\ Leaves(t) /\ Step(t, t2) /\ t2.pc \notin {"run", "panicked"})
       => /\ <<t.pc, t2.pc>> \in C18Order
          /\ t.pc = "bitfield" => rx'.read /\ rx'.frame.id = 5 /\ ~rx'.frame.trunc
          /\ t.pc = "unchoke" => rx'.read /\ rx'.frame.id = 1 /\ ~rx'.frame.trunc
          /\ t.pc = "piece" => rx'.read /\ rx'.frame.id = 7 /\ ~rx'.frame.trunc
          /\ t.pc \notin {"bitfield", "unchoke", "piece"} => ~rx'.read]_vars

\* A second Request of a piece is outstanding.
C18_SecondRequest ==
  \E t \in Running : t.pc = "piece" /\ t.offset = 16384

\* C19: a Piece read while Request(index, begin, length) is outstanding whose
\* index or begin or block length is not the request's ends the session, and
\* the block is not appended.
C19_MismatchedPieceFails ==
  [][\A t \in Running :
       (/\ t.pc = "piece" /\ Leaves(t)
        /\ rx'.read /\ ~rx'.frame.trunc /\ rx'.frame.id = 7 /\ Len(rx'.frame.bytes) = 8
        /\ \/ FromBe32(SubSeq(rx'.frame.bytes, 1, 4)) # t.piece.index
           \/ FromBe32(SubSeq(rx'.frame.bytes, 5, 8)) # t.offset
           \/ ByteLen(rx'.frame.block)
                # (IF ExpectedSize(t.piece.index) - t.offset < 16384
                   THEN ExpectedSize(t.piece.index) - t.offset ELSE 16384))
       => (Step(t, Idle("run")) \/ Step(t, Idle("panicked")))]_vars

\* C20: a Choke read in place of a Piece ends the session as an error: the
\* worker is back at the head of run's loop with its peer pushed back, the
\* piece buffer is dropped and the output buffer is not changed.
C20_ChokeFailsSession ==
  [][\A t \in Running :
       (/\ t.pc = "piece" /\ Leaves(t)
        /\ rx'.read /\ ~rx'.frame.trunc /\ rx'.frame.id = 0 /\ rx'.frame.length = 1)
       => /\ Step(t, Idle("run"))
          /\ peers' = Append(peers, t.peer)
          /\ file_buffer' = file_buffer]_vars

\* A Choke was just read in place of a Piece.
C20_ChokeRead ==
  /\ rx.read /\ rx.at = "piece" /\ rx.frame.id = 0 /\ rx.frame.length = 1
  /\ ~rx.frame.trunc
  /\ peers # <<>>

\* C21: a session whose peer has no bit set for any piece still queued (the
\* queue may be empty) ends without error: the worker is back at the head of
\* run's loop, the peer is not pushed back, and the queue is as it was.
C21_NoMatchEndsSession ==
  [][\A t \in Running :
       (t.pc = "claim" /\ Leaves(t) /\ C15Matches(t.bitfield, pieces) = {})
       => /\ Step(t, Idle("run"))
          /\ peers' = peers
          /\ pieces' = pieces]_vars

\* C22: a frame with length field 0 is a keep-alive without an id byte:
\* reading it computes no payload length below zero and leaves the session,
\* the pool and the queue as they were.
C22_KeepAliveIgnored ==
  [][(rx'.read /\ ~rx'.frame.trunc /\ rx'.frame.length = 0)
       => /\ rx'.frame.length - 1 >= 0
          /\ \A t \in Running : ~Step(t, Idle("panicked"))
          /\ peers' = peers
          /\ pieces' = pieces]_vars

AllExited == \A t \in Running : t.pc = "done"

\* Piece i is set, MSB first, in the bitfield of some peer.
C23Covered ==
  \A i \in PieceIndices :
    \E p \in Peers : i \div 8 < Len(swarm[p]) /\ C9Bit(swarm[p], i)

\* The range of piece i in the output buffer, and what the file has there.
C23Range(i) ==
  Slice(file_buffer, i * piece_length, i * piece_length + ExpectedSize(i))
C23Reference(i) ==
  RefBytes(i * piece_length, i * piece_length + ExpectedSize(i))

\* C23: in a run in which no session fails and every piece is set in the
\* bitfield of some peer, whatever the interleaving of the 5 workers: once
\* all workers have exited the queue is empty and the range of every piece
\* holds the bytes of the file, and an install writes a range that still
\* holds its initial zeros, so that every piece is installed exactly once.
C23_AllInstalledOnce ==
  /\ []((AllExited /\ C23Covered)
          => /\ pieces = <<>>
             /\ \A i \in PieceIndices : C23Range(i) = C23Reference(i))
  /\ [][\A t \in Running :
          (t.pc = "install" /\ Leaves(t))
          => C23Range(t.piece.index) = Normalize(<<ZeroRun(ExpectedSize(t.piece.index))>>)]_vars

\* All workers have exited after they installed every piece of a covered
\* torrent from two peers.
C23_AllExitedCovered ==
  /\ AllExited /\ C23Covered
  /\ Len(swarm[1]) > 0 /\ Len(swarm[2]) > 0
  /\ \A i \in PieceIndices : C23Range(i) = C23Reference(i)

\* The range of piece i in the output buffer holds the zeros it started with.
C24Zero(i) == C23Range(i) = Normalize(<<ZeroRun(ExpectedSize(i))>>)

\* C24: in every reachable state the range of each piece in the output
\* buffer holds its initial zeros or bytes whose SHA-1 is the hash of that
\* piece; the buffer changes only in an install, and what an install copies
\* is a whole piece whose SHA-1 was found equal to the expected hash.
C24_OnlyVerifiedBytes ==
  /\ [](\A i \in PieceIndices : C24Zero(i) \/ HashesTo(file_buffer, i))
  /\ [][file_buffer' # file_buffer
          => \E t \in Running :
               /\ t.pc = "install" /\ Leaves(t)
               /\ ByteLen(t.buffer) = ExpectedSize(t.piece.index)
               /\ Sha1(t.buffer) = InfoPieces[t.piece.index + 1]]_vars

\* One piece is in the output buffer while a worker holds a buffer of junk
\* for the other, which is still zeros in the output.
C24_JunkHeldBack ==
  \E i \in PieceIndices, t \in Running :
    /\ t.piece.index = i /\ t.pc = "verify"
    /\ Sha1(t.buffer) # t.piece.hash
    /\ C24Zero(i)
    /\ \E j \in PieceIndices : j # i /\ ~C24Zero(j) /\ HashesTo(file_buffer, j)

\* How many entries of the queue carry index i, and how many workers hold it.
C25Entries(i) == Cardinality({k \in 1 .. Len(pieces) : pieces[k].index = i})
C25Held(i) == Cardinality(Holders(i))

\* C25: the queue starts with one entry for each piece index; the set of
\* its entries only ever shrinks; an index is in the queue once, or held by
\* one worker, or written to the output, never two of these, so that no two
\* workers hold the same index; and an install writes a range that still
\* holds its zeros, so that no range is written twice.
C25_ClaimedAtMostOnce ==
  /\ \A i \in PieceIndices : C25Entries(i) = 1
  /\ [](\A i \in PieceIndices :
          /\ C25Entries(i) + C25Held(i) + (IF C24Zero(i) THEN 0 ELSE 1) <= 1
          /\ \A t \in Holders(i) : threads[t] = 1)
  /\ [][/\ {pieces'[k] : k \in 1 .. Len(pieces')} \subseteq {pieces[k] : k \in 1 .. Len(pieces)}
        /\ \A t \in Running :
             (t.pc = "install" /\ Leaves(t)) => C24Zero(t.piece.index)]_vars

\* The queue is empty, one piece is in the output and a worker holds the
\* other, about to install it.
C25_LastPieceHeld ==
  /\ pieces = <<>>
  /\ \E i \in PieceIndices, t \in Running :
       /\ t.pc = "install" /\ t.piece.index = i /\ C24Zero(i)
       /\ \E j \in PieceIndices : j # i /\ ~C24Zero(j)

C27Panicked == \E t \in Running : t.pc = "panicked"

\* C27: the output file is written only after all 5 workers have been
\* joined, each having returned from run; once a worker has panicked the
\* file is never written, and download_file ends aborted, not written.
C27_WrittenOnlyAfterCleanJoin ==
  /\ [](main_pc = "written" => (joined = NumWorkers /\ AllExited))
  /\ [](C27Panicked => (output_file = <<>> /\ main_pc # "written"))
  /\ [][output_file' # output_file
          => (joined = NumWorkers /\ AllExited /\ main_pc' = "written")]_vars

\* A worker panicked after a piece was installed, four workers returned and
\* were joined, and download_file aborted with nothing written.
C27_AbortedUnwritten ==
  /\ main_pc = "aborted" /\ C27Panicked
  /\ joined = NumWorkers - 1
  /\ \E i \in PieceIndices : ~C24Zero(i)
  /\ ~buffer_lock.poisoned
  /\ output_file = <<>>

\* C26: under fair scheduling, in a run whose sessions all end and fail only
\* finitely many times, every worker finds the pool empty and exits and
\* download_file writes the output.
C26_WorkersExitOutputWritten ==
  <>[][~SessionFails]_vars => <>(AllExited /\ main_pc = "written")

====
